---- MODULE Spec2Model ----
(***************************************************************************)
(* Model of the Transcript Gateway (src/api/index.py): three retrieval     *)
(* handlers in front of the YouTubeTranscriptApi provider.  One request is *)
(* followed from entry to response; every blocking provider call is one    *)
(* step, and the provider's answer to a call is a nondeterministic choice  *)
(* between a value and a raised error.  Strings are TLA+ strings, so the   *)
(* substring tests, the concatenations and strip() are computed on the     *)
(* characters.                                                             *)
(***************************************************************************)
EXTENDS Integers, Sequences, FiniteSets, TLC

VARIABLES
    op,               \* route the request addresses: "none", "default", "language", "listing"
    video_id,         \* video_id segment of the request's path
    language_code,    \* path parameter of the language route ("" on the other routes)
    proxy,            \* query parameter: [present |-> FALSE] is Python's None
    pc,               \* position of the handler
    calls,            \* provider calls issued during the request, in order, with their outcome
    first_error,      \* str(first_error), bound at line 49
    second_error,     \* str(second_error), bound at line 53
    transcript,       \* value bound to `transcript`
    transcript_list,  \* value bound to `transcript_list`
    response          \* what the client receives: [status, body]

vars == <<op, video_id, language_code, proxy, pc, calls, first_error,
          second_error, transcript, transcript_list, response>>

-----------------------------------------------------------------------------
(* Bounds of the model *)

MaxEntries == 2
MaxLanguages == 2

-----------------------------------------------------------------------------
(* Inputs *)

None == [present |-> FALSE, value |-> ""]
Some(v) == [present |-> TRUE, value |-> v]

VideoIds == {"", "dQw4w9WgXcQ"}
LanguageCodes == {"fr", "en"}
ProxyValues == {None, Some(""), Some("http://p:8080")}

\* Messages of the errors the provider raises.
ErrorMessages ==
    { "No transcripts were found for the requested language codes",
      "Could not retrieve a transcript. Video unavailable",
      "Too Many Requests" }

\* Caption entries as the provider returns them.  `raises` tells whether
\* subscripting the entry raises, and `error` is then the str of the exception
\* (a dict without 'text' raises KeyError, whose str is 'text'; an exception
\* may also have an empty message).
Entry(t, s, d) ==
    [text |-> t, start |-> s, duration |-> d, raises |-> FALSE, error |-> ""]
BadEntry(m) ==
    [text |-> "", start |-> 0, duration |-> 0, raises |-> TRUE, error |-> m]

KeyErrorText == "'text'"

Entries ==
    { Entry("hi", 0, 1), Entry(" a b ", 1, 2), Entry("\f\n", 3, 0),
      BadEntry(KeyErrorText),
      BadEntry(""),
      BadEntry("No transcripts were found"),
      BadEntry("Video unavailable") }

Descriptor(name, code, gen) ==
    [language |-> name, language_code |-> code, is_generated |-> gen, is_translatable |-> TRUE]

Descriptors ==
    { Descriptor("English", "en", FALSE),
      Descriptor("English (United States)", "en-US", TRUE),
      Descriptor("French", "fr", FALSE) }

SeqsUpTo(S, n) == UNION { [1..k -> S] : k \in 0..n }
NonEmptySeqsUpTo(S, n) == UNION { [1..k -> S] : k \in 1..n }

Ok(v) == [ok |-> TRUE, error |-> "", value |-> v]
Err(m) == [ok |-> FALSE, error |-> m, value |-> <<>>]

\* What a caption fetch can answer, and what an enumeration can answer (the
\* provider raises rather than answer with an empty list of transcripts).
TranscriptOutcomes ==
    { Ok(s) : s \in SeqsUpTo(Entries, MaxEntries) } \cup { Err(m) : m \in ErrorMessages }
ListOutcomes ==
    { Ok(s) : s \in NonEmptySeqsUpTo(Descriptors, MaxLanguages) } \cup { Err(m) : m \in ErrorMessages }

-----------------------------------------------------------------------------
(* String helpers: Python's `in`, str.strip and str.join *)

Contains(s, pat) ==
    \E i \in 0..(Len(s) - Len(pat)) : SubSeq(s, i + 1, i + Len(pat)) = pat

\* The characters str.isspace holds for, among those a string literal can
\* hold: space, \t, \n, \r, \f, vertical tab, the separators 28 to 31,
\* NEL (133), the no-break space (160) and the Ogham space mark (5760).  The
\* remaining Unicode spaces (8192-8202, 8232, 8233, 8239, 8287, 12288) cannot
\* be written in a string literal.
IsSpace(c) ==
    c \in {" ", "\t", "\n", "\r", "\f", "", "", "", "", "",
           "", " ", " "}

RECURSIVE LStrip(_)
LStrip(s) ==
    IF Len(s) = 0 THEN s
    ELSE IF IsSpace(SubSeq(s, 1, 1)) THEN LStrip(SubSeq(s, 2, Len(s)))
    ELSE s

RECURSIVE RStrip(_)
RStrip(s) ==
    IF Len(s) = 0 THEN s
    ELSE IF IsSpace(SubSeq(s, Len(s), Len(s))) THEN RStrip(SubSeq(s, 1, Len(s) - 1))
    ELSE s

Strip(s) == RStrip(LStrip(s))

RECURSIVE Join(_, _)
Join(sep, strs) ==
    IF Len(strs) = 0 THEN ""
    ELSE IF Len(strs) = 1 THEN strs[1]
    ELSE strs[1] \o sep \o Join(sep, Tail(strs))

-----------------------------------------------------------------------------
(* Pieces of the handlers *)

\* The {video_id} segment of the three route paths: the router binds a
\* path parameter only to a segment of at least one character, so a request
\* whose segment is empty matches no route.
RouteMatches(vid) == Len(vid) >= 1

\* What the router answers when no route matches.
NotFound == [status |-> 404, body |-> [detail |-> "Not Found"]]

\* `if not video_id`
InvalidVideoId(v) == v = ""

\* `proxies = None; if proxy: proxies = {"http": proxy, "https": proxy}`
NoProxies == [set |-> FALSE, http |-> "", https |-> ""]
Proxies(p) ==
    IF p.present /\ p.value # ""
    THEN [set |-> TRUE, http |-> p.value, https |-> p.value]
    ELSE NoProxies

\* `"proxy_used": proxy is not None`
ProxyUsed_Truthy(p) == p.present /\ p.value # ""
ProxyUsed(p) == p.present

\* `languages=[language_code]`
LanguagePreference_WithEnglish(code) == <<code, "en">>
LanguagePreference(code) == <<code>>

\* The language lists of steps 2 and 3 of the default handler.
EnglishVariants == <<"en", "en-US", "en-GB">>
EnglishFallback == <<"en", "en-US">>

HTTPException(status, detail) == [status |-> status, body |-> [detail |-> detail]]
JSONResponse(body) == [status |-> 200, body |-> body]
NoResponse == [status |-> 0, body |-> [detail |-> ""]]

\* One provider call and its outcome, as the provider saw it.
Call(api, vid, languages, proxies, outcome) ==
    [api |-> api, video_id |-> vid, languages |-> languages, proxies |-> proxies,
     ok |-> outcome.ok, error |-> outcome.error, value |-> outcome.value]

\* The 503 of the default handler once the three steps have failed.
BlockedDetail_NoHint(msg) ==
    "YouTube is blocking requests. Original error: " \o msg
BlockedDetail(msg) ==
    "YouTube is blocking requests. Try: 1) Different video ID, 2) Add ?proxy=YOUR_PROXY_URL, 3) Try again later. Original error: "
        \o msg

\* `except Exception as e` of the default handler.
ClassifyDefaultError_Unavailable500(error_msg) ==
    IF Contains(error_msg, "No transcripts were found")
    THEN HTTPException(404, "No transcripts found for this video")
    ELSE HTTPException(500, "Error retrieving transcript: " \o error_msg)
ClassifyDefaultError(error_msg) ==
    IF Contains(error_msg, "No transcripts were found")
    THEN HTTPException(404, "No transcripts found for this video")
    ELSE IF Contains(error_msg, "Video unavailable")
    THEN HTTPException(404, "Video not found or unavailable")
    ELSE HTTPException(500, "Error retrieving transcript: " \o error_msg)

\* `except Exception as e` of the language handler.
ClassifyLanguageError(error_msg, code) ==
    IF Contains(error_msg, "No transcripts were found")
    THEN HTTPException(404, "No transcripts found for this video in language: " \o code)
    ELSE IF Contains(error_msg, "Video unavailable")
    THEN HTTPException(404, "Video not found or unavailable")
    ELSE HTTPException(500, "Error retrieving transcript: " \o error_msg)

\* The error mapping of the listing handler.
ClassifyListingError_BadGateway(error_msg) ==
    IF Contains(error_msg, "Video unavailable")
    THEN HTTPException(404, "Video not found or unavailable")
    ELSE HTTPException(502, "Error retrieving languages: " \o error_msg)
ClassifyListingError(error_msg) ==
    IF Contains(error_msg, "Video unavailable")
    THEN HTTPException(404, "Video not found or unavailable")
    ELSE HTTPException(500, "Error retrieving languages: " \o error_msg)

\* The formatting loop: copies text, start and duration of every entry and
\* appends the text and one space to full_text; stops at the first entry
\* whose subscripting raises.
RECURSIVE FormatLoop(_, _, _)
FormatLoop(rest, formatted_transcript, full_text) ==
    IF Len(rest) = 0
    THEN [raised |-> FALSE, error |-> "",
          formatted_transcript |-> formatted_transcript, full_text |-> full_text]
    ELSE LET entry == Head(rest) IN
         IF entry.raises
         THEN [raised |-> TRUE, error |-> entry.error,
               formatted_transcript |-> formatted_transcript, full_text |-> full_text]
         ELSE FormatLoop(Tail(rest),
                         Append(formatted_transcript,
                                [text |-> entry.text, start |-> entry.start,
                                 duration |-> entry.duration]),
                         full_text \o entry.text \o " ")

\* `"full_text": full_text.strip()`
FullText_NoStrip(full_text) == full_text
FullText(full_text) == Strip(full_text)

\* TranscriptList.find_transcript(language_codes): the first requested code
\* for which the list holds a transcript, a manually created one first.
\* The result is <<>> when NoTranscriptFound is raised.
RECURSIVE FindTranscript(_, _)
FindTranscript(list, language_codes) ==
    IF Len(language_codes) = 0 THEN <<>>
    ELSE LET code == Head(language_codes)
             manual == { i \in 1..Len(list) :
                           list[i].language_code = code /\ ~list[i].is_generated }
             generated == { i \in 1..Len(list) :
                           list[i].language_code = code /\ list[i].is_generated }
             First(S) == CHOOSE i \in S : \A j \in S : i <= j
         IN IF manual # {} THEN <<list[First(manual)]>>
            ELSE IF generated # {} THEN <<list[First(generated)]>>
            ELSE FindTranscript(list, Tail(language_codes))

\* `[t.language_code for t in transcript_list]`
RECURSIVE LanguageCodesOf(_)
LanguageCodesOf(list) ==
    IF Len(list) = 0 THEN <<>>
    ELSE <<Head(list).language_code>> \o LanguageCodesOf(Tail(list))

\* The 404 raised at line 124, which names the available languages.
AvailableLanguagesDetail(code, available_langs) ==
    "No transcript found for language '" \o code \o "'. Available languages: "
        \o Join(", ", available_langs)

\* The loop building `available_languages` in the listing handler.
RECURSIVE AvailableLanguages(_)
AvailableLanguages(list) ==
    IF Len(list) = 0 THEN <<>>
    ELSE <<[language |-> Head(list).language,
            language_code |-> Head(list).language_code,
            is_generated |-> Head(list).is_generated,
            is_translatable |-> Head(list).is_translatable]>>
         \o AvailableLanguages(Tail(list))

-----------------------------------------------------------------------------
(* State machine *)

Init ==
    /\ op = "none"
    /\ video_id = ""
    /\ language_code = ""
    /\ proxy = None
    /\ pc = "idle"
    /\ calls = <<>>
    /\ first_error = ""
    /\ second_error = ""
    /\ transcript = <<>>
    /\ transcript_list = <<>>
    /\ response = NoResponse

\* A request arrives for a route.  When the path matches, the handler is
\* entered: its parameters are bound and the video id is validated (an
\* empty one would end the request with a 400).  When the video_id segment
\* is empty no route matches and the router answers, without entering the
\* handler.
Enter(o, vid, code, p, first) ==
    /\ pc \in {"idle", "done"}
    /\ op' = o
    /\ video_id' = vid
    /\ language_code' = code
    /\ proxy' = p
    /\ calls' = <<>>
    /\ first_error' = ""
    /\ second_error' = ""
    /\ transcript' = <<>>
    /\ transcript_list' = <<>>
    /\ IF ~RouteMatches(vid)
       THEN /\ response' = NotFound
            /\ pc' = "done"
       ELSE IF InvalidVideoId(vid)
       THEN /\ response' = HTTPException(400, "Invalid YouTube video ID or URL")
            /\ pc' = "done"
       ELSE /\ response' = NoResponse
            /\ pc' = first

get_transcript ==
    \E vid \in VideoIds, p \in ProxyValues : Enter("default", vid, "", p, "step1")

get_transcript_with_language ==
    \E code \in LanguageCodes, vid \in VideoIds, p \in ProxyValues :
        Enter("language", vid, code, p, "lang_fetch")

get_available_languages ==
    \E vid \in VideoIds, p \in ProxyValues : Enter("listing", vid, "", p, "list")

\* The response of the default handler for the fetched caption entries.
DefaultResponse(vid, p, entries) ==
    LET r == FormatLoop(entries, <<>>, "")
    IN IF r.raised
       THEN ClassifyDefaultError(r.error)
       ELSE JSONResponse([video_id |-> vid,
                          transcript |-> r.formatted_transcript,
                          full_text |-> FullText(r.full_text),
                          total_entries |-> Len(r.formatted_transcript),
                          proxy_used |-> ProxyUsed(p)])

\* The response of the language handler for the fetched caption entries.
LanguageResponse(vid, code, p, entries) ==
    LET r == FormatLoop(entries, <<>>, "")
    IN IF r.raised
       THEN ClassifyLanguageError(r.error, code)
       ELSE JSONResponse([video_id |-> vid,
                          language |-> code,
                          transcript |-> r.formatted_transcript,
                          full_text |-> FullText(r.full_text),
                          total_entries |-> Len(r.formatted_transcript),
                          proxy_used |-> ProxyUsed(p)])

\* Step 1 of the default handler: get_transcript(video_id[, proxies]).
DefaultStep1_Continue ==
    /\ pc = "step1"
    /\ \E outcome \in TranscriptOutcomes :
        /\ calls' = Append(calls, Call("get_transcript", video_id, <<>>, Proxies(proxy), outcome))
        /\ transcript' = outcome.value
        /\ first_error' = outcome.error
        /\ pc' = "step2"
    /\ UNCHANGED <<op, video_id, language_code, proxy, second_error, transcript_list, response>>
DefaultStep1 ==
    /\ pc = "step1"
    /\ \E outcome \in TranscriptOutcomes :
        /\ calls' = Append(calls, Call("get_transcript", video_id, <<>>, Proxies(proxy), outcome))
        /\ IF outcome.ok
           THEN /\ transcript' = outcome.value
                /\ pc' = "format"
                /\ UNCHANGED first_error
           ELSE /\ first_error' = outcome.error
                /\ pc' = "step2"
                /\ UNCHANGED transcript
    /\ UNCHANGED <<op, video_id, language_code, proxy, second_error, transcript_list, response>>

\* Step 2: get_transcript(video_id, languages=['en', 'en-US', 'en-GB']).
DefaultStep2 ==
    /\ pc = "step2"
    /\ \E outcome \in TranscriptOutcomes :
        /\ calls' = Append(calls, Call("get_transcript", video_id, EnglishVariants, NoProxies, outcome))
        /\ IF outcome.ok
           THEN /\ transcript' = outcome.value
                /\ pc' = "format"
                /\ UNCHANGED second_error
           ELSE /\ second_error' = outcome.error
                /\ pc' = "step3_list"
                /\ UNCHANGED transcript
    /\ UNCHANGED <<op, video_id, language_code, proxy, first_error, transcript_list, response>>

\* Step 3, first half: list_transcripts(video_id), then find_transcript on
\* the list.  A failure of either ends the request with the 503.
DefaultStep3List ==
    /\ pc = "step3_list"
    /\ \E outcome \in ListOutcomes :
        /\ calls' = Append(calls, Call("list_transcripts", video_id, <<>>, NoProxies, outcome))
        /\ IF outcome.ok /\ FindTranscript(outcome.value, EnglishFallback) # <<>>
           THEN /\ transcript_list' = outcome.value
                /\ pc' = "step3_fetch"
                /\ UNCHANGED response
           ELSE /\ transcript_list' = outcome.value
                /\ response' = HTTPException(503, BlockedDetail(first_error))
                /\ pc' = "done"
    /\ UNCHANGED <<op, video_id, language_code, proxy, first_error, second_error, transcript>>

\* Step 3, second half: fetch() of the transcript found.
DefaultStep3Fetch_Retry ==
    /\ pc = "step3_fetch"
    /\ \E outcome \in TranscriptOutcomes :
        /\ calls' = Append(calls,
                           Call("fetch", video_id,
                                <<FindTranscript(transcript_list, EnglishFallback)[1].language_code>>,
                                NoProxies, outcome))
        /\ IF outcome.ok
           THEN /\ transcript' = outcome.value
                /\ pc' = "format"
           ELSE /\ pc' = "step3_fetch"
                /\ UNCHANGED transcript
    /\ UNCHANGED <<op, video_id, language_code, proxy, first_error, second_error,
                   transcript_list, response>>
DefaultStep3Fetch ==
    /\ pc = "step3_fetch"
    /\ \E outcome \in TranscriptOutcomes :
        /\ calls' = Append(calls,
                           Call("fetch", video_id,
                                <<FindTranscript(transcript_list, EnglishFallback)[1].language_code>>,
                                NoProxies, outcome))
        /\ IF outcome.ok
           THEN /\ transcript' = outcome.value
                /\ pc' = "format"
                /\ UNCHANGED response
           ELSE /\ response' = HTTPException(503, BlockedDetail(first_error))
                /\ pc' = "done"
                /\ UNCHANGED transcript
    /\ UNCHANGED <<op, video_id, language_code, proxy, first_error, second_error, transcript_list>>

\* The formatting loop and the return of the default handler.
DefaultFormat ==
    /\ pc = "format"
    /\ op = "default"
    /\ response' = DefaultResponse(video_id, proxy, transcript)
    /\ pc' = "done"
    /\ UNCHANGED <<op, video_id, language_code, proxy, calls, first_error, second_error,
                   transcript, transcript_list>>

\* The fetch of the language handler:
\* get_transcript(video_id, languages=[language_code][, proxies]).
LanguageFetch ==
    /\ pc = "lang_fetch"
    /\ \E outcome \in TranscriptOutcomes :
        /\ calls' = Append(calls, Call("get_transcript", video_id,
                                       LanguagePreference(language_code), Proxies(proxy), outcome))
        /\ IF outcome.ok
           THEN /\ transcript' = outcome.value
                /\ pc' = "format"
                /\ UNCHANGED first_error
           ELSE /\ first_error' = outcome.error
                /\ pc' = "lang_list"
                /\ UNCHANGED transcript
    /\ UNCHANGED <<op, video_id, language_code, proxy, second_error, transcript_list, response>>

\* What the statements of lines 122-127 raise: the provider's error when the
\* enumeration fails, the 404 naming the available languages when it succeeds.
RaisedInEnumeration(code, outcome) ==
    IF outcome.ok
    THEN [type |-> "HTTPException",
          exc |-> HTTPException(404, AvailableLanguagesDetail(code, LanguageCodesOf(outcome.value)))]
    ELSE [type |-> "ProviderError", exc |-> [status |-> 0, body |-> [detail |-> outcome.error]]]

\* `except Exception` at line 128: HTTPException derives from Exception, so
\* the clause catches both the provider's errors and the 404 of line 124.
CaughtByExceptException(raised) == raised.type \in {"HTTPException", "ProviderError"}

\* The enumeration of the language handler after a failed fetch.
LanguageEnumerate ==
    /\ pc = "lang_list"
    /\ \E outcome \in ListOutcomes :
        /\ calls' = Append(calls, Call("list_transcripts", video_id, <<>>, NoProxies, outcome))
        /\ transcript_list' = outcome.value
        /\ LET raised == RaisedInEnumeration(language_code, outcome)
           IN response' =
                IF CaughtByExceptException(raised)
                THEN HTTPException(404, "No transcripts found for this video in language: "
                                            \o language_code)
                ELSE raised.exc
        /\ pc' = "done"
    /\ UNCHANGED <<op, video_id, language_code, proxy, first_error, second_error, transcript>>

\* The formatting loop and the return of the language handler.
LanguageFormat ==
    /\ pc = "format"
    /\ op = "language"
    /\ response' = LanguageResponse(video_id, language_code, proxy, transcript)
    /\ pc' = "done"
    /\ UNCHANGED <<op, video_id, language_code, proxy, calls, first_error, second_error,
                   transcript, transcript_list>>

\* The listing handler after validation: list_transcripts(video_id), with or
\* without a proxy in the request, then the response.
ListLanguages ==
    /\ pc = "list"
    /\ \E outcome \in ListOutcomes :
        /\ calls' = Append(calls, Call("list_transcripts", video_id, <<>>, NoProxies, outcome))
        /\ transcript_list' = outcome.value
        /\ response' =
             IF outcome.ok
             THEN JSONResponse([video_id |-> video_id,
                                available_languages |-> AvailableLanguages(outcome.value),
                                total_languages |-> Len(AvailableLanguages(outcome.value)),
                                proxy_used |-> ProxyUsed(proxy)])
             ELSE ClassifyListingError(outcome.error)
        /\ pc' = "done"
    /\ UNCHANGED <<op, video_id, language_code, proxy, first_error, second_error, transcript>>

Next ==
    \/ get_transcript
    \/ get_transcript_with_language
    \/ get_available_languages
    \/ DefaultStep1
    \/ DefaultStep2
    \/ DefaultStep3List
    \/ DefaultStep3Fetch
    \/ DefaultFormat
    \/ LanguageFetch
    \/ LanguageEnumerate
    \/ LanguageFormat
    \/ ListLanguages

Spec == Init /\ [][Next]_vars

-----------------------------------------------------------------------------
(* Vocabulary of the properties *)

Done == pc = "done"
NCalls == Len(calls)
LastCall == calls[NCalls]
IsCaptionFetch(c) == c.api \in {"get_transcript", "fetch"}
Detail == response.body.detail

\* The remediation steps the 503 is documented to carry.
RemediationHint ==
    "Try: 1) Different video ID, 2) Add ?proxy=YOUR_PROXY_URL, 3) Try again later"

\* Step 3 of the default handler was attempted and did not produce entries:
\* the enumeration failed, or no en/en-US transcript was listed, or the
\* fetch of the listed transcript failed.
Step3Failed ==
    /\ NCalls >= 3
    /\ \/ ~calls[3].ok
       \/ FindTranscript(calls[3].value, EnglishFallback) = <<>>
       \/ NCalls = 4 /\ ~calls[4].ok

AllStepsFailed ==
    /\ op = "default" /\ Done /\ video_id # ""
    /\ NCalls >= 3
    /\ ~calls[1].ok /\ ~calls[2].ok
    /\ Step3Failed

\* C1: when steps 1, 2 and 3 of the default handler have all failed, the
\* response is a 503 whose detail holds the remediation hint and the message
\* of the step-1 error, and not the message of a later error that differs.
C1_ExhaustedIs503WithFirstError ==
    AllStepsFailed =>
        /\ response.status = 503
        /\ Contains(Detail, RemediationHint)
        /\ Contains(Detail, calls[1].error)
        /\ \A i \in 2..NCalls :
              (~calls[i].ok /\ calls[i].error # calls[1].error)
                  => ~Contains(Detail, calls[i].error)

C1_Witness ==
    /\ AllStepsFailed
    /\ NCalls = 4
    /\ calls[1].error = "Too Many Requests"
    /\ Contains(calls[2].error, "Video unavailable")
    /\ Contains(calls[4].error, "No transcripts were found")
    /\ response.status = 503

\* The language handler's fetch failed and the enumeration was attempted.
LanguageFellBack ==
    /\ op = "language" /\ Done /\ video_id # ""
    /\ NCalls = 2
    /\ ~calls[1].ok

\* C2: in the language handler, a failed fetch followed by a successful
\* enumeration gives a 404 whose detail lists every available language code;
\* the generic 404 naming the requested language is given only when the
\* enumeration fails.
C2_FallbackListsAvailableLanguages ==
    LanguageFellBack =>
        /\ response.status = 404
        /\ calls[2].ok =>
              /\ \A i \in 1..Len(calls[2].value) :
                     Contains(Detail, calls[2].value[i].language_code)
              /\ Detail # "No transcripts found for this video in language: " \o language_code
        /\ ~calls[2].ok =>
              Detail = "No transcripts found for this video in language: " \o language_code

\* C3 as stated: once the fallback steps are exhausted, the step-1 message
\* decides between 404, 404 and 500.
C3_ExhaustedMappedByFirstError ==
    AllStepsFailed =>
        IF Contains(calls[1].error, "No transcripts were found") THEN response.status = 404
        ELSE IF Contains(calls[1].error, "Video unavailable") THEN response.status = 404
        ELSE response.status = 500 /\ Contains(Detail, calls[1].error)

\* Whether the formatting loop raises on these entries, and the message of
\* the exception it then raises.
SomeRaise(entries) == \E i \in 1..Len(entries) : entries[i].raises
FirstRaise(entries) ==
    entries[CHOOSE i \in 1..Len(entries) :
               /\ entries[i].raises
               /\ \A j \in 1..(i - 1) : ~entries[j].raises].error

\* C3, amended: an exhausted fallback chain gives a 503 whatever the step-1
\* message contains, with that message in the detail; a 404 or 500 of the
\* default handler comes only from an exception raised while formatting the
\* entries of a successful fetch, and it is that exception's message which
\* is matched: "No transcripts were found" gives 404, "Video unavailable"
\* gives 404, anything else gives 500 carrying the message.
C3_MappingAppliesToFormattingOnly ==
    /\ AllStepsFailed =>
          response.status = 503 /\ Contains(Detail, calls[1].error)
    /\ (op = "default" /\ Done /\ video_id # "" /\ response.status # 503) =>
          /\ LastCall.ok /\ IsCaptionFetch(LastCall)
          /\ IF ~SomeRaise(LastCall.value) THEN response.status = 200
             ELSE LET m == FirstRaise(LastCall.value) IN
                IF Contains(m, "No transcripts were found") THEN response.status = 404
                ELSE IF Contains(m, "Video unavailable") THEN response.status = 404
                ELSE response.status = 500 /\ Contains(Detail, m)

C3_Witness ==
    /\ op = "default" /\ Done
    /\ NCalls = 2
    /\ Contains(calls[1].error, "No transcripts were found")
    /\ calls[2].ok
    /\ SomeRaise(calls[2].value)
    /\ FirstRaise(calls[2].value) = "Video unavailable"
    /\ response.status = 404

\* C4: a request with an empty video_id ends with a 400 and no provider
\* call, on each of the three routes, whatever proxy and language_code are.
C4_EmptyVideoIdIs400WithoutCalls ==
    (op # "none" /\ video_id = "") =>
        /\ Done
        /\ response.status = 400
        /\ NCalls = 0

\* The entries a response is documented to carry for the provider's entries.
CopyOf(entries) ==
    [i \in 1..Len(entries) |->
        [text |-> entries[i].text, start |-> entries[i].start,
         duration |-> entries[i].duration]]

\* C5: the default handler issues step 1, then step 2 only after step 1
\* failed, then step 3 only after step 2 failed; nothing is issued after a
\* caption fetch succeeded; a 200 carries the entries of the one step that
\* succeeded and has no language field.
C5_FallbackOrder ==
    op = "default" =>
        /\ NCalls >= 1 =>
              /\ calls[1].api = "get_transcript" /\ calls[1].languages = <<>>
        /\ NCalls >= 2 =>
              /\ ~calls[1].ok
              /\ calls[2].api = "get_transcript" /\ calls[2].languages = EnglishVariants
        /\ NCalls >= 3 =>
              /\ ~calls[2].ok
              /\ calls[3].api = "list_transcripts"
        /\ NCalls >= 4 =>
              /\ calls[3].ok
              /\ calls[4].api = "fetch"
        /\ NCalls <= 4
        /\ \A i \in 1..NCalls : (calls[i].ok /\ IsCaptionFetch(calls[i])) => i = NCalls
        /\ response.status = 200 =>
              /\ LastCall.ok /\ IsCaptionFetch(LastCall)
              /\ response.body.transcript = CopyOf(LastCall.value)
              /\ "language" \notin DOMAIN response.body

C5_Witness ==
    /\ op = "default" /\ Done
    /\ NCalls = 4
    /\ ~calls[1].ok /\ ~calls[2].ok /\ calls[3].ok /\ calls[4].ok
    /\ Len(calls[4].value) = 2
    /\ response.status = 200
    /\ response.body.transcript = CopyOf(calls[4].value)

C5_WitnessStep2 ==
    /\ op = "default" /\ Done
    /\ NCalls = 2
    /\ ~calls[1].ok /\ calls[2].ok
    /\ response.status = 200
    /\ Len(response.body.transcript) = 2

\* C6: in the language handler every caption fetch is restricted to exactly
\* [language_code], at most one is issued, and a 200 is given only when it
\* succeeded, with language equal to the requested code.
C6_NoLanguageSubstitution ==
    op = "language" =>
        /\ \A i \in 1..NCalls :
              IsCaptionFetch(calls[i]) => calls[i].languages = <<language_code>>
        /\ Cardinality({ i \in 1..NCalls : IsCaptionFetch(calls[i]) }) <= 1
        /\ response.status = 200 =>
              /\ NCalls = 1 /\ calls[1].ok /\ IsCaptionFetch(calls[1])
              /\ response.body.language = language_code

C6_Witness ==
    /\ op = "language" /\ Done
    /\ language_code = "fr"
    /\ response.status = 200
    /\ response.body.language = "fr"
    /\ calls[1].languages = <<"fr">>
    /\ Len(response.body.transcript) > 0

\* C7: a finished request has one of the statuses 200, 400, 404, 500, 503;
\* every status other than 200 comes with a detail string; and a request
\* whose last provider call raised never ends in a 200.
C7_ProviderErrorsAreClassified ==
    Done =>
        /\ response.status \in {200, 400, 404, 500, 503}
        /\ response.status # 200 =>
              /\ DOMAIN response.body = {"detail"}
              /\ Len(Detail) > 0
        /\ (NCalls > 0 /\ ~LastCall.ok) => response.status \in {400, 404, 500, 503}

C7_Witness ==
    /\ op = "listing" /\ Done
    /\ NCalls = 1 /\ ~calls[1].ok
    /\ calls[1].error = "Too Many Requests"
    /\ response.status = 500
    /\ Contains(Detail, "Too Many Requests")

\* C8: in every 200 response, proxy_used is true exactly when the proxy
\* parameter was present in the request.
C8_ProxyUsedIsProxyPresent ==
    (Done /\ response.status = 200) => response.body.proxy_used = proxy.present

\* An empty proxy string in the listing handler: reported as used, although
\* no provider call received a proxy.
C8_Witness ==
    /\ op = "listing" /\ Done
    /\ response.status = 200
    /\ proxy = Some("")
    /\ response.body.proxy_used
    /\ \A i \in 1..NCalls : ~calls[i].proxies.set

TextsOf(entries) == [i \in 1..Len(entries) |-> entries[i].text]

\* C9: a 200 of the default or the language handler built from the entries
\* S has a transcript of the length of S whose i-th entry has the text, start
\* and duration of S[i], total_entries equal to that length, and full_text
\* equal to the texts of S joined by single spaces and trimmed.
C9_ResponseMirrorsEntries ==
    (Done /\ op \in {"default", "language"} /\ response.status = 200) =>
        LET S == LastCall.value
            body == response.body
        IN /\ Len(body.transcript) = Len(S)
           /\ \A i \in 1..Len(S) :
                 /\ body.transcript[i].text = S[i].text
                 /\ body.transcript[i].start = S[i].start
                 /\ body.transcript[i].duration = S[i].duration
           /\ body.total_entries = Len(body.transcript)
           /\ body.full_text = Strip(Join(" ", TextsOf(S)))

C9_Witness ==
    /\ Done /\ op = "language" /\ response.status = 200
    /\ LastCall.value = <<Entry(" a b ", 1, 2), Entry("\f\n", 3, 0)>>
    /\ response.body.full_text = "a b"
    /\ response.body.total_entries = 2

\* C10 as stated: one to three provider calls per request with a non-empty
\* video id.
C10_AtMostThreeCalls ==
    (Done /\ video_id # "") => (NCalls >= 1 /\ NCalls <= 3)

\* C10, amended: a request with a non-empty video id performs at least one
\* provider call; the default handler performs at most four (step 1, step 2,
\* the enumeration of step 3 and the fetch of the transcript it selects), the
\* language handler at most two and the listing handler exactly one.
C10_CallBounds ==
    /\ NCalls <= 4
    /\ (Done /\ video_id # "") =>
          /\ NCalls >= 1
          /\ op = "language" => NCalls <= 2
          /\ op = "listing" => NCalls = 1

C10_Witness ==
    /\ op = "default" /\ Done
    /\ NCalls = 4
    /\ calls[3].api = "list_transcripts" /\ calls[3].ok
    /\ calls[4].api = "fetch"

====
